---- MODULE Spec2Model ----
(***************************************************************************)
(* The 'structure' index of a graph (src/src/indices.js) and the edge      *)
(* iteration methods built on it (src/unnamed/part_001, the module that    *)
(* attaches edges, inEdges, ... and their counters to the Graph class).    *)
(*                                                                         *)
(* The Graph class itself (the node and edge stores, hasNode,              *)
(* hasDirectedEdge, computeIndex, the hooks that call indices.js) and the  *)
(* bunch helpers of utils are not among the sources; they are modelled     *)
(* from the specification, and marked so where they are defined.           *)
(***************************************************************************)
EXTENDS Integers, Sequences, FiniteSets, TLC

(***************************************************************************)
(* Bounds of the model.                                                    *)
(***************************************************************************)
\* Number of edges added over a run. Edge keys are handed out in increasing
\* order, so the key order is the insertion order of the edge store.
MaxEdges == 2

\* Longest bunch passed to a query.
MaxBunch == 2

\* Largest number of positional arguments passed to a query entry point.
MaxArgs == 3

\* The nodes of the graph, and one identifier that is no node of it.
Nodes == {"A", "B"}

Missing == "X"

NodeIds == Nodes \cup {Missing}

VARIABLES
  multi,     \* graph.multi: fixed at construction
  _edges,    \* graph._edges: edge key -> [source, target, undirected]
  added,     \* number of edges added so far (the last key handed out)
  _nodes,    \* graph._nodes: node -> its four adjacency buckets
  sets,      \* the Set instances the multigraph buckets refer to
  computed,  \* whether the 'structure' index is built
  last       \* the call that has just returned or thrown, and its outcome

vars == <<multi, _edges, added, _nodes, sets, computed, last>>

(***************************************************************************)
(* JavaScript values.                                                      *)
(***************************************************************************)
\* A bucket (data.in, data.out, data.undirectedIn, data.undirectedOut) is
\* either undefined or an object created by Object.create(null), whose own
\* keys are neighbour identifiers.
EmptyFcn == [k \in {} |-> 0]

Undefined == [def |-> FALSE, at |-> EmptyFcn]

EmptyObject == [def |-> TRUE, at |-> EmptyFcn]

\* object[key] = value
Put(f, key, value) ==
  [k \in DOMAIN f \cup {key} |-> IF k = key THEN value ELSE f[k]]

\* delete object[key]
Delete(f, key) == [k \in DOMAIN f \ {key} |-> f[k]]

BucketNames == {"in", "out", "undirectedIn", "undirectedOut"}

NoBuckets == [b \in BucketNames |-> Undefined]

\* The part of the graph the index functions and the queries write: the node
\* records, the Set instances reachable from them and the flag of the index.
Index == [nodes |-> _nodes, sets |-> sets, computed |-> computed]

(***************************************************************************)
(* src/src/indices.js                                                      *)
(***************************************************************************)
\* new Set(): the instance created at line 42 for sourceData[outKey][target].
\* At most one such instance is reachable per (outKey, source, target): an
\* entry of a multigraph bucket is never deleted on its own, so a second
\* instance is only created after clearStructureIndex dropped the first.
NewSet(outKey, source, target) == <<outKey, source, target>>

\* A slip: the `target in sourceData[outKey]` test of line 41 is left out, so
\* the entry is written anew on every insertion.
updateStructureIndexNoGuard(idx, edge, data) ==
  LET undirected == data.undirected
      source == data.source
      target == data.target
      outKey == IF undirected THEN "undirectedOut" ELSE "out"
      inKey == IF undirected THEN "undirectedIn" ELSE "in"
      out0 == idx.nodes[source][outKey]
      out1 == IF out0.def THEN out0 ELSE EmptyObject
      value == IF multi THEN NewSet(outKey, source, target) ELSE edge
      out2 == [out1 EXCEPT !.at = Put(out1.at, target, value)]
      sets1 == IF multi THEN Put(idx.sets, value, {edge}) ELSE idx.sets
      nodes1 == [idx.nodes EXCEPT ![source][outKey] = out2]
  IN  IF source = target
      THEN [idx EXCEPT !.nodes = nodes1, !.sets = sets1]
      ELSE LET in0 == nodes1[target][inKey]
               in1 == IF in0.def THEN in0 ELSE EmptyObject
               in2 == [in1 EXCEPT !.at = Put(in1.at, source, value)]
           IN  [idx EXCEPT !.nodes = [nodes1 EXCEPT ![target][inKey] = in2],
                           !.sets = sets1]

\* updateStructureIndex without the return of line 49: a self-loop is
\* mirrored into the in-side bucket of its node.
updateStructureIndexMirrorsSelfLoop(idx, edge, data) ==
  LET undirected == data.undirected
      source == data.source
      target == data.target
      outKey == IF undirected THEN "undirectedOut" ELSE "out"
      inKey == IF undirected THEN "undirectedIn" ELSE "in"
      out0 == idx.nodes[source][outKey]
      out1 == IF out0.def THEN out0 ELSE EmptyObject
      absent == target \notin DOMAIN out1.at
      value == IF absent
               THEN (IF multi THEN NewSet(outKey, source, target) ELSE edge)
               ELSE out1.at[target]
      out2 == IF absent
              THEN [out1 EXCEPT !.at = Put(out1.at, target, value)]
              ELSE out1
      sets1 == IF absent /\ multi THEN Put(idx.sets, value, {}) ELSE idx.sets
      sets2 == IF multi
               THEN [sets1 EXCEPT ![value] = @ \cup {edge}]
               ELSE sets1
      nodes1 == [idx.nodes EXCEPT ![source][outKey] = out2]
      in0 == nodes1[target][inKey]
      in1 == IF in0.def THEN in0 ELSE EmptyObject
      in2 == IF source \in DOMAIN in1.at
             THEN in1
             ELSE [in1 EXCEPT !.at = Put(in1.at, source, value)]
  IN  [idx EXCEPT !.nodes = [nodes1 EXCEPT ![target][inKey] = in2],
                  !.sets = sets2]

updateStructureIndex(idx, edge, data) ==
  LET undirected == data.undirected
      source == data.source
      target == data.target
      outKey == IF undirected THEN "undirectedOut" ELSE "out"
      \* sourceData[outKey] = sourceData[outKey] || Object.create(null)
      out0 == idx.nodes[source][outKey]
      out1 == IF out0.def THEN out0 ELSE EmptyObject
      \* if (!(target in sourceData[outKey])) ... = multi ? new Set() : edge
      absent == target \notin DOMAIN out1.at
      value == IF absent
               THEN (IF multi THEN NewSet(outKey, source, target) ELSE edge)
               ELSE out1.at[target]
      out2 == IF absent
              THEN [out1 EXCEPT !.at = Put(out1.at, target, value)]
              ELSE out1
      sets1 == IF absent /\ multi THEN Put(idx.sets, value, {}) ELSE idx.sets
      \* if (multi) sourceData[outKey][target].add(edge)
      sets2 == IF multi
               THEN [sets1 EXCEPT ![value] = @ \cup {edge}]
               ELSE sets1
      nodes1 == [idx.nodes EXCEPT ![source][outKey] = out2]
  IN  \* if (source === target) return
      IF source = target
      THEN [idx EXCEPT !.nodes = nodes1, !.sets = sets2]
      ELSE LET inKey == IF undirected THEN "undirectedIn" ELSE "in"
               \* targetData[inKey] = targetData[inKey] || Object.create(null)
               in0 == nodes1[target][inKey]
               in1 == IF in0.def THEN in0 ELSE EmptyObject
               \* if (!(source in targetData[inKey]))
               \*   targetData[inKey][source] = sourceData[outKey][target]
               in2 == IF source \in DOMAIN in1.at
                      THEN in1
                      ELSE [in1 EXCEPT !.at = Put(in1.at, source, value)]
           IN  [idx EXCEPT !.nodes = [nodes1 EXCEPT ![target][inKey] = in2],
                           !.sets = sets2]

\* clearEdgeFromStructureIndex deleting the bucket of the source side as a
\* whole, `delete sourceData[outKey]`, where the code deletes one entry.
clearEdgeFromStructureIndexWholeBucket(idx, edge, data) ==
  LET source == data.source
      target == data.target
      outKey == IF data.undirected THEN "undirectedOut" ELSE "out"
      inKey == IF data.undirected THEN "undirectedIn" ELSE "in"
      nodes1 == [idx.nodes EXCEPT ![source][outKey] = Undefined]
      idx1 == [idx EXCEPT !.nodes = nodes1]
  IN  IF ~idx.nodes[source][outKey].def
      THEN [idx |-> idx, threw |-> TRUE]
      ELSE IF multi
           THEN [idx |-> idx1, threw |-> FALSE]
           ELSE IF ~nodes1[target][inKey].def
                THEN [idx |-> idx1, threw |-> TRUE]
                ELSE [idx |-> [idx1 EXCEPT !.nodes =
                                 [nodes1 EXCEPT ![target][inKey].at =
                                                  Delete(@, source)]],
                      threw |-> FALSE]

\* clearEdgeFromStructureIndex with the return of line 89 taken in simple
\* mode too: the entry of the target side is left in place.
clearEdgeFromStructureIndexSourceOnly(idx, edge, data) ==
  LET source == data.source
      target == data.target
      outKey == IF data.undirected THEN "undirectedOut" ELSE "out"
      sourceIndex == idx.nodes[source][outKey]
  IN  IF ~sourceIndex.def
      THEN [idx |-> idx, threw |-> TRUE]
      ELSE
        LET present == target \in DOMAIN sourceIndex.at
            sets1 == IF present /\ multi
                     THEN [idx.sets EXCEPT ![sourceIndex.at[target]] =
                                              @ \ {edge}]
                     ELSE idx.sets
            nodes1 == IF present /\ ~multi
                      THEN [idx.nodes EXCEPT ![source][outKey].at =
                                               Delete(@, target)]
                      ELSE idx.nodes
        IN  [idx |-> [idx EXCEPT !.nodes = nodes1, !.sets = sets1],
             threw |-> FALSE]

\* The result is the index after the call and whether the call threw a
\* TypeError: `target in sourceIndex` (line 80) and `delete
\* targetIndex[source]` (line 95) both throw when the bucket is undefined,
\* the second one after the source side has been written.
clearEdgeFromStructureIndex(idx, edge, data) ==
  LET source == data.source
      target == data.target
      undirected == data.undirected
      outKey == IF undirected THEN "undirectedOut" ELSE "out"
      sourceIndex == idx.nodes[source][outKey]
  IN  IF ~sourceIndex.def
      THEN [idx |-> idx, threw |-> TRUE]
      ELSE
        LET present == target \in DOMAIN sourceIndex.at
            \* sourceIndex[target].delete(edge)
            sets1 == IF present /\ multi
                     THEN [idx.sets EXCEPT ![sourceIndex.at[target]] =
                                              @ \ {edge}]
                     ELSE idx.sets
            \* delete sourceIndex[target]
            nodes1 == IF present /\ ~multi
                      THEN [idx.nodes EXCEPT ![source][outKey].at =
                                               Delete(@, target)]
                      ELSE idx.nodes
            idx1 == [idx EXCEPT !.nodes = nodes1, !.sets = sets1]
        IN  \* if (multi) return
            IF multi
            THEN [idx |-> idx1, threw |-> FALSE]
            ELSE
              LET inKey == IF undirected THEN "undirectedIn" ELSE "in"
                  targetIndex == nodes1[target][inKey]
              IN  IF ~targetIndex.def
                  THEN [idx |-> idx1, threw |-> TRUE]
                  ELSE [idx |-> [idx1 EXCEPT !.nodes =
                                   [nodes1 EXCEPT ![target][inKey].at =
                                                    Delete(@, source)]],
                        threw |-> FALSE]

\* delete data.in, data.out, data.undirectedIn, data.undirectedOut on every
\* node. The Set instances are no longer reachable afterwards.
clearStructureIndex(idx) ==
  [idx EXCEPT !.nodes = [n \in DOMAIN idx.nodes |-> NoBuckets],
              !.sets = EmptyFcn]

(***************************************************************************)
(* The Graph class: the collaborator the index and the queries rely on.    *)
(* Its code is not among the sources; these definitions follow sections    *)
(* 4.1 and 6 of the specification.                                         *)
(***************************************************************************)
\* The keys of graph._edges in iteration order, which for a Map is insertion
\* order: keys are handed out in increasing order.
EdgeOrder == SelectSeq([i \in 1..added |-> i], LAMBDA e : e \in DOMAIN _edges)

\* graph.size: the number of edges.
size == Cardinality(DOMAIN _edges)

hasNode(node) == node \in Nodes

\* Does a directed edge go from source to target?
hasDirectedEdge(source, target) ==
  \E e \in DOMAIN _edges :
    /\ ~_edges[e].undirected
    /\ _edges[e].source = source
    /\ _edges[e].target = target

\* Does an undirected edge connect source and target?
hasUndirectedEdge(source, target) ==
  \E e \in DOMAIN _edges :
    /\ _edges[e].undirected
    /\ \/ _edges[e].source = source /\ _edges[e].target = target
       \/ _edges[e].source = target /\ _edges[e].target = source

RECURSIVE InsertAll(_, _)
\* build(): every edge of the store, in its order, inserted as by insert.
InsertAll(idx, order) ==
  IF order = <<>>
  THEN idx
  ELSE InsertAll(updateStructureIndex(idx, Head(order), _edges[Head(order)]),
                 Tail(order))

\* computeIndex('structure'): a no-op on a built index.
computeIndex(idx) ==
  IF idx.computed
  THEN idx
  ELSE [InsertAll(idx, EdgeOrder) EXCEPT !.computed = TRUE]

\* clearIndex('structure')
clearIndex(idx) == [clearStructureIndex(idx) EXCEPT !.computed = FALSE]

\* onEdgeAdded: the index is maintained once it is built; before that, the
\* edge is picked up by the build.
onEdgeAdded(idx, edge, data) ==
  IF idx.computed THEN updateStructureIndex(idx, edge, data) ELSE idx

\* onEdgeRemoved
onEdgeRemoved(idx, edge, data) ==
  IF idx.computed
  THEN clearEdgeFromStructureIndex(idx, edge, data)
  ELSE [idx |-> idx, threw |-> FALSE]

\* In a simple graph the mutation API refuses a second edge of the same kind
\* between the same endpoints (section 3 of the specification).
CanAddEdge(source, target, undirected) ==
  multi \/ IF undirected
           THEN ~hasUndirectedEdge(source, target)
           ELSE ~hasDirectedEdge(source, target)

(***************************************************************************)
(* Outcomes of a call: a returned array, a returned number, or a throw.    *)
(***************************************************************************)
Outcome(kind, arr, nb, node) ==
  [kind |-> kind, arr |-> arr, nb |-> nb, node |-> node]

Array(arr) == Outcome("array", arr, 0, "")

Number(nb) == Outcome("number", <<>>, nb, "")

\* NotFoundGraphError, whose message carries the identifier.
NotFound(node) == Outcome("NotFound", <<>>, 0, node)

\* InvalidArgumentsGraphError, whose message carries args.length.
InvalidArguments(n) == Outcome("InvalidArguments", <<>>, n, "")

\* A TypeError of the engine: a call of a property that is no function, a
\* property read on undefined.
TypeError == Outcome("TypeError", <<>>, 0, "")

Nothing == Outcome("none", <<>>, 0, "")

Threw(out) == out.kind \in {"NotFound", "InvalidArguments", "TypeError"}

(***************************************************************************)
(* src/unnamed/part_001: the edge iteration methods.                       *)
(*                                                                         *)
(* graph.map tells whether the stores of the graph are ES6 Maps.  The node *)
(* store is one: indices.js reads it with graph._nodes.get(...) (lines 33, *)
(* 34, 75, 91).  The methods therefore take their Map branch throughout:   *)
(* graph._nodes.get(node), graph._edges.forEach / keys, and the ...FromMap *)
(* helpers.                                                                *)
(***************************************************************************)
EDGES_ITERATION ==
  << [name |-> "edges", counter |-> "countEdges",
      type |-> "mixed", direction |-> "none"],
     [name |-> "inEdges", counter |-> "countInEdges",
      type |-> "directed", direction |-> "in"],
     [name |-> "outEdges", counter |-> "countOutEdges",
      type |-> "directed", direction |-> "out"],
     [name |-> "inboundEdges", counter |-> "countInboundEdges",
      type |-> "mixed", direction |-> "in"],
     [name |-> "outboundEdges", counter |-> "countOutboundEdges",
      type |-> "mixed", direction |-> "out"],
     [name |-> "directedEdges", counter |-> "countDirectedEdges",
      type |-> "directed", direction |-> "none"],
     [name |-> "undirectedEdges", counter |-> "countUndirectedEdges",
      type |-> "undirected", direction |-> "none"],
     [name |-> "selfLoops", counter |-> "countSelfLoops",
      type |-> "selfLoops", direction |-> "none"] >>

\* The Map branch of the helpers is handed a bucket of the index, which is
\* undefined or an object without prototype (indices.js lines 39 and 55): it
\* has neither get nor forEach, so `map.get(key)` and `map.forEach(...)`
\* throw a TypeError whenever the bucket exists, with or without a key.
collectEdgesFromMap(bucket) ==
  IF ~bucket.def THEN Array(<<>>) ELSE TypeError

countEdgesFromMap(bucket) ==
  IF ~bucket.def THEN Number(0) ELSE TypeError

\* The set of edges after the call, and whether the call threw.
mergeEdgesFromMap(edges, bucket) ==
  IF ~bucket.def
  THEN [edges |-> edges, threw |-> FALSE]
  ELSE [edges |-> edges, threw |-> TRUE]

\* The (type, edge) test of the scan of createEdgeArray, lines 219-221 and
\* 238-240.
Matches(type, data) ==
  /\ (type = "selfLoops") = (data.source = data.target)
  /\ data.undirected = (type = "undirected")

\* A slip: the self-loop half of the test is dropped from the counting.
createEdgeArrayMiscount(count, type) ==
  IF count /\ type = "mixed"
  THEN Number(size)
  ELSE IF type = "mixed"
  THEN Array(EdgeOrder)
  ELSE IF count
  THEN Number(Cardinality({e \in DOMAIN _edges :
                             _edges[e].undirected = (type = "undirected")}))
  ELSE Array(SelectSeq(EdgeOrder, LAMBDA e : Matches(type, _edges[e])))

createEdgeArray(count, type) ==
  IF count /\ type = "mixed"
  THEN Number(size)
  ELSE IF type = "mixed"
  THEN Array(EdgeOrder)
  ELSE IF count
  THEN Number(Cardinality({e \in DOMAIN _edges : Matches(type, _edges[e])}))
  ELSE Array(SelectSeq(EdgeOrder, LAMBDA e : Matches(type, _edges[e])))

\* The buckets a (type, direction) reads on a node, in the order of lines
\* 281-311 and 341-355.
BucketsOf(type, direction) ==
  (IF type \in {"mixed", "directed"}
   THEN (IF direction \in {"none", "in"} THEN <<"in">> ELSE <<>>)
        \o (IF direction \in {"none", "out"} THEN <<"out">> ELSE <<>>)
   ELSE <<>>)
  \o
  (IF type \in {"mixed", "undirected"}
   THEN (IF direction \in {"none", "in"} THEN <<"undirectedIn">> ELSE <<>>)
        \o (IF direction \in {"none", "out"}
            THEN <<"undirectedOut">> ELSE <<>>)
   ELSE <<>>)

RECURSIVE Gather(_, _, _)
\* nb += countEdges(...) or edges = edges.concat(collectEdges(...)) over the
\* buckets read, up to the first one that throws.
Gather(count, acc, results) ==
  IF results = <<>>
  THEN acc
  ELSE IF Threw(Head(results))
  THEN Head(results)
  ELSE Gather(count,
              IF count
              THEN Number(acc.nb + Head(results).nb)
              ELSE Array(acc.arr \o Head(results).arr),
              Tail(results))

createEdgeArrayForNode(count, idx, type, direction, node) ==
  LET idx1 == computeIndex(idx)
      nodeData == idx1.nodes[node]
      buckets == BucketsOf(type, direction)
      results == [i \in 1..Len(buckets) |->
                    IF count
                    THEN countEdgesFromMap(nodeData[buckets[i]])
                    ELSE collectEdgesFromMap(nodeData[buckets[i]])]
  IN  [idx |-> idx1,
       out |-> Gather(count, IF count THEN Number(0) ELSE Array(<<>>),
                      results)]

RECURSIVE MergeAll(_, _, _)
\* mergeEdges over the buckets of one node, up to the first one that throws.
MergeAll(edges, nodeData, buckets) ==
  IF buckets = <<>>
  THEN [edges |-> edges, threw |-> FALSE]
  ELSE LET m == mergeEdgesFromMap(edges, nodeData[Head(buckets)])
       IN  IF m.threw THEN m ELSE MergeAll(m.edges, nodeData, Tail(buckets))

RECURSIVE overBunch(_, _, _, _, _)
\* overBunch(bunch, callback) with the callback of lines 335-356: the nodes
\* of the bunch in order, up to the first one that throws.
overBunch(bunch, edges, idx, type, direction) ==
  IF bunch = <<>>
  THEN Array(edges)
  ELSE IF ~hasNode(Head(bunch))
  THEN NotFound(Head(bunch))
  ELSE LET m == MergeAll(edges, idx.nodes[Head(bunch)],
                         BucketsOf(type, direction))
       IN  IF m.threw
           THEN TypeError
           ELSE overBunch(Tail(bunch), m.edges, idx, type, direction)

createEdgeArrayForBunch(name, idx, type, direction, bunch) ==
  LET idx1 == computeIndex(idx)
  IN  [idx |-> idx1, out |-> overBunch(bunch, <<>>, idx1, type, direction)]

createEdgeArrayForPath(count, idx, type, source, target) ==
  LET idx1 == computeIndex(idx)
      sourceData == idx1.nodes[source]
      buckets == (IF type \in {"mixed", "directed"}
                  THEN <<"in", "out">> ELSE <<>>)
                 \o (IF type \in {"mixed", "undirected"}
                     THEN <<"undirectedIn", "undirectedOut">> ELSE <<>>)
      results == [i \in 1..Len(buckets) |->
                    IF count
                    THEN countEdgesFromMap(sourceData[buckets[i]])
                    ELSE collectEdgesFromMap(sourceData[buckets[i]])]
  IN  [idx |-> idx1,
       out |-> Gather(count, IF count THEN Number(0) ELSE Array(<<>>),
                      results)]

\* Arguments of a call: a node identifier or a bunch of node identifiers.
NodeArg(node) == [isBunch |-> FALSE, node |-> node, bunch |-> <<>>]

BunchArg(bunch) == [isBunch |-> TRUE, node |-> "", bunch |-> bunch]

\* isBunch of utils: an array, a Set, a Map or a plain object.
isBunch(arg) == arg.isBunch

\* args.length === 1, lines 449-483.
ArityOne(counter, description, nodeOrBunch, idx) ==
  IF ~isBunch(nodeOrBunch) /\ hasNode(nodeOrBunch.node)
  THEN createEdgeArrayForNode(counter, idx, description.type,
                              description.direction, nodeOrBunch.node)
  ELSE IF isBunch(nodeOrBunch)
  THEN LET r == createEdgeArrayForBunch(
                  IF counter THEN description.counter ELSE description.name,
                  idx, description.type, description.direction,
                  nodeOrBunch.bunch)
       IN  \* return counter ? edges.length : edges
           [idx |-> r.idx,
            out |-> IF counter /\ r.out.kind = "array"
                    THEN Number(Len(r.out.arr))
                    ELSE r.out]
  ELSE [idx |-> idx, out |-> NotFound(nodeOrBunch.node)]

\* A slip: the test of hasEdge (lines 503-504) is left out.
ArityTwoNoEarlyReturn(counter, description, source, target, idx) ==
  IF ~hasNode(source)
  THEN [idx |-> idx, out |-> NotFound(source)]
  ELSE IF ~hasNode(target)
  THEN [idx |-> idx, out |-> NotFound(target)]
  ELSE createEdgeArrayForPath(counter, idx, description.type, source, target)

\* args.length === 2, lines 485-513.
ArityTwo(counter, description, source, target, idx) ==
  IF ~hasNode(source)
  THEN [idx |-> idx, out |-> NotFound(source)]
  ELSE IF ~hasNode(target)
  THEN [idx |-> idx, out |-> NotFound(target)]
  ELSE LET hasEdge == IF description.type \in {"mixed", "directed"}
                      THEN hasDirectedEdge(source, target)
                      ELSE hasUndirectedEdge(source, target)
       IN  IF ~hasEdge
           THEN [idx |-> idx,
                 out |-> IF counter THEN Number(0) ELSE Array(<<>>)]
           ELSE createEdgeArrayForPath(counter, idx, description.type,
                                       source, target)

\* A slip: every call with two arguments or more is taken for a path query
\* on its first two arguments.
attachEdgeArrayCreatorNoArityCheck(counter, description, args, idx) ==
  IF Len(args) = 0
  THEN [idx |-> idx, out |-> createEdgeArray(counter, description.type)]
  ELSE IF Len(args) = 1
  THEN ArityOne(counter, description, args[1], idx)
  ELSE ArityTwo(counter, description, args[1].node, args[2].node, idx)

\* Class.prototype[name] = function(...args), lines 445-516: the outcome of
\* the call and the index after it.
attachEdgeArrayCreator(counter, description, args, idx) ==
  IF Len(args) = 0
  THEN [idx |-> idx, out |-> createEdgeArray(counter, description.type)]
  ELSE IF Len(args) = 1
  THEN ArityOne(counter, description, args[1], idx)
  ELSE IF Len(args) = 2
  THEN ArityTwo(counter, description, args[1].node, args[2].node, idx)
  ELSE [idx |-> idx, out |-> InvalidArguments(Len(args))]

(***************************************************************************)
(* The calls made on the graph.                                            *)
(***************************************************************************)
\* A bunch lists an identifier at most once.
Bunches ==
  {b \in UNION {[1..n -> NodeIds] : n \in 0..MaxBunch} :
     \A i, j \in DOMAIN b : b[i] = b[j] => i = j}

ArgLists ==
  {<<>>}
  \cup {<<NodeArg(n)>> : n \in NodeIds}
  \cup {<<BunchArg(b)>> : b \in Bunches}
  \cup {<<NodeArg(s), NodeArg(t)>> : s \in NodeIds, t \in NodeIds}
  \cup {[i \in 1..n |-> NodeArg(x)] : n \in 3..MaxArgs, x \in NodeIds}

Call(method, counter, args, out) ==
  [method |-> method, counter |-> counter, args |-> args, out |-> out]

NoCall == Call("", FALSE, <<>>, Nothing)

Init ==
  /\ multi \in BOOLEAN
  /\ _edges = EmptyFcn
  /\ added = 0
  /\ _nodes = [n \in Nodes |-> NoBuckets]
  /\ sets = EmptyFcn
  /\ computed = FALSE
  /\ last = NoCall

SetIndex(idx) ==
  /\ _nodes' = idx.nodes
  /\ sets' = idx.sets
  /\ computed' = idx.computed

\* addEdge: the edge store is written, then the hook runs.
AddEdge(source, target, undirected) ==
  /\ last = NoCall
  /\ added < MaxEdges
  /\ CanAddEdge(source, target, undirected)
  /\ LET edge == added + 1
         data == [source |-> source, target |-> target,
                  undirected |-> undirected]
     IN  /\ _edges' = Put(_edges, edge, data)
         /\ added' = edge
         /\ SetIndex(onEdgeAdded(Index, edge, data))
  /\ UNCHANGED <<multi, last>>

\* dropEdge: the edge store is written, then the hook runs; a throw of the
\* hook reaches the caller.
DropEdge(edge) ==
  /\ last = NoCall
  /\ edge \in DOMAIN _edges
  /\ LET r == onEdgeRemoved(Index, edge, _edges[edge])
     IN  /\ _edges' = Delete(_edges, edge)
         /\ SetIndex(r.idx)
         /\ last' = IF r.threw
                    THEN Call("dropEdge", FALSE, <<>>, TypeError)
                    ELSE NoCall
  /\ UNCHANGED <<multi, added>>

ClearIndex ==
  /\ last = NoCall
  /\ SetIndex(clearIndex(Index))
  /\ UNCHANGED <<multi, _edges, added, last>>

ComputeIndex ==
  /\ last = NoCall
  /\ SetIndex(computeIndex(Index))
  /\ UNCHANGED <<multi, _edges, added, last>>

\* One of the 16 entry points is called.
Query(d, counter, args) ==
  /\ last = NoCall
  /\ \E r \in {attachEdgeArrayCreator(counter, EDGES_ITERATION[d], args,
                                      Index)} :
       /\ SetIndex(r.idx)
       /\ last' = Call(EDGES_ITERATION[d].name, counter, args, r.out)
  /\ UNCHANGED <<multi, _edges, added>>

\* The caller takes the outcome of the call.
Return ==
  /\ last # NoCall
  /\ last' = NoCall
  /\ UNCHANGED <<multi, _edges, added, _nodes, sets, computed>>

\* Any of the entry points, with any of the argument lists.
AnyQuery ==
  /\ last = NoCall
  /\ \E d \in DOMAIN EDGES_ITERATION, c \in BOOLEAN, a \in ArgLists :
       Query(d, c, a)

Next ==
  \/ \E s \in Nodes, t \in Nodes, u \in BOOLEAN : AddEdge(s, t, u)
  \/ \E e \in DOMAIN _edges : DropEdge(e)
  \/ ClearIndex
  \/ ComputeIndex
  \/ AnyQuery
  \/ Return

Spec == Init /\ [][Next]_vars

(***************************************************************************)
(* Vocabulary of the properties.                                           *)
(***************************************************************************)
Methods == {EDGES_ITERATION[d].name : d \in DOMAIN EDGES_ITERATION}

Description(method) ==
  EDGES_ITERATION[CHOOSE d \in DOMAIN EDGES_ITERATION :
                    EDGES_ITERATION[d].name = method]

\* The call that has just returned or thrown is a query.
IsQuery(call) == call.method \in Methods

\* The collect-mode call of `method` on one node.
Collected(call, method, node) ==
  /\ call.method = method
  /\ ~call.counter
  /\ call.args = <<NodeArg(node)>>

Occurrences(arr, edge) == Cardinality({i \in DOMAIN arr : arr[i] = edge})

\* The identifiers passed to a call of one or two arguments.
Mentioned(args) ==
  UNION {IF args[i].isBunch
         THEN {args[i].bunch[j] : j \in DOMAIN args[i].bunch}
         ELSE {args[i].node} : i \in DOMAIN args}

\* Some edge, of either kind and in either direction, has s and t as its
\* endpoints.
Connected(s, t) ==
  \E e \in DOMAIN _edges :
    \/ _edges[e].source = s /\ _edges[e].target = t
    \/ _edges[e].source = t /\ _edges[e].target = s

IndexUnchanged == UNCHANGED <<_nodes, sets, computed>>

(***************************************************************************)
(* Properties.                                                             *)
(***************************************************************************)
\* C1: with a directed edge e from s to t, s # t, in the graph, outEdges(s)
\* and inEdges(t) return e exactly once, and inEdges(s) and outEdges(t) return
\* arrays without e.
C1_DirectedEdgeInItsBuckets ==
  \A e \in DOMAIN _edges :
    LET s == _edges[e].source
        t == _edges[e].target
    IN  (~_edges[e].undirected /\ s # t) =>
          /\ (Collected(last, "outEdges", s) \/ Collected(last, "inEdges", t))
               => /\ last.out.kind = "array"
                  /\ Occurrences(last.out.arr, e) = 1
          /\ (Collected(last, "inEdges", s) \/ Collected(last, "outEdges", t))
               => /\ last.out.kind = "array"
                  /\ Occurrences(last.out.arr, e) = 0

\* C2: in a multigraph whose edges are all directed edges between two
\* distinct nodes, outEdges(s) and inEdges(t) return exactly the edges from s
\* to t that exist, each once.
C2_ParallelEdgesListed ==
  \A s \in Nodes, t \in Nodes :
    (/\ multi
     /\ s # t
     /\ \A e \in DOMAIN _edges : ~_edges[e].undirected
                                 /\ _edges[e].source # _edges[e].target
     /\ (Collected(last, "outEdges", s) \/ Collected(last, "inEdges", t)))
    => /\ last.out.kind = "array"
       /\ \A e \in DOMAIN _edges :
            Occurrences(last.out.arr, e) =
              IF _edges[e].source = s /\ _edges[e].target = t THEN 1 ELSE 0
       /\ Len(last.out.arr) =
            Cardinality({e \in DOMAIN _edges :
                           _edges[e].source = s /\ _edges[e].target = t})

\* C3: a self-loop e on node s is returned exactly once by edges(s), by
\* inboundEdges(s) and by outboundEdges(s).
C3_SelfLoopOnce ==
  \A e \in DOMAIN _edges :
    LET s == _edges[e].source
    IN  (/\ s = _edges[e].target
         /\ \E m \in {"edges", "inboundEdges", "outboundEdges"} :
              Collected(last, m, s))
        => /\ last.out.kind = "array"
           /\ Occurrences(last.out.arr, e) = 1

\* C4: a collect-mode query on a bunch of existing nodes returns an array in
\* which no edge occurs twice, and edges([s, t]) holds every edge that
\* connects s and t exactly once.
C4_BunchUnion ==
  (/\ IsQuery(last)
   /\ ~last.counter
   /\ Len(last.args) = 1
   /\ last.args[1].isBunch
   /\ Mentioned(last.args) \subseteq Nodes)
  => /\ last.out.kind = "array"
     /\ \A e \in DOMAIN _edges : Occurrences(last.out.arr, e) <= 1
     /\ (last.method = "edges" /\ Len(last.args[1].bunch) = 2)
          => \A e \in DOMAIN _edges :
               ({_edges[e].source, _edges[e].target} =
                  {last.args[1].bunch[1], last.args[1].bunch[2]})
               => Occurrences(last.out.arr, e) = 1

\* What the count-mode entry point returns when the collect-mode one returns
\* `out`: the length of the array.
CountOf(out) == IF out.kind = "array" THEN Number(Len(out.arr)) ELSE out

\* C5: a count-mode call returns a number exactly when the collect-mode call
\* of the same family, on the same graph state and arguments, returns an
\* array, and the number is the length of that array.
C5_CountIsLengthOfCollect ==
  [][(last = NoCall /\ IsQuery(last') /\ last'.counter) =>
       LET collect == attachEdgeArrayCreator(FALSE, Description(last'.method),
                                             last'.args, Index).out
       IN  /\ (collect.kind = "array") <=> (last'.out.kind = "number")
           /\ collect.kind = "array" => last'.out = CountOf(collect)]_vars

\* A counter has returned the number of two edges that the collect-mode call
\* lists.
C5_Witness ==
  /\ last.method = "selfLoops"
  /\ last.counter
  /\ last.args = <<>>
  /\ last.out = Number(2)
  /\ createEdgeArray(FALSE, "selfLoops").kind = "array"
  /\ Len(createEdgeArray(FALSE, "selfLoops").arr) = 2

\* C6: a call with two existing nodes that no edge connects returns the empty
\* array, or 0 in count mode, and leaves the flag and the buckets of the
\* index as they were.
C6_NoEdgeNoIndexAccess ==
  [][(/\ last = NoCall
      /\ IsQuery(last')
      /\ Len(last'.args) = 2
      /\ Mentioned(last'.args) \subseteq Nodes
      /\ ~Connected(last'.args[1].node, last'.args[2].node))
     => /\ last'.out = IF last'.counter THEN Number(0) ELSE Array(<<>>)
        /\ IndexUnchanged]_vars

\* edges(A, B) has returned the empty array on a graph that has an edge, and
\* the index is still not built.
C6_Witness ==
  /\ last.method = "edges"
  /\ ~last.counter
  /\ last.args = <<NodeArg("A"), NodeArg("B")>>
  /\ last.out = Array(<<>>)
  /\ ~Connected("A", "B")
  /\ DOMAIN _edges # {}
  /\ ~computed

\* C7: a query that is passed the identifier of no node, as its node, in its
\* bunch, or as source or target, throws NotFound naming that identifier.
C7_MissingNodeNotFound ==
  (/\ IsQuery(last)
   /\ Len(last.args) \in {1, 2}
   /\ Missing \in Mentioned(last.args))
  => last.out = NotFound(Missing)

\* C8: a call with more than two arguments throws InvalidArguments with the
\* number of arguments, and leaves the index as it was.
C8_TooManyArguments ==
  [][(last = NoCall /\ IsQuery(last') /\ Len(last'.args) > 2)
     => /\ last'.out = InvalidArguments(Len(last'.args))
        /\ IndexUnchanged]_vars

\* A call with three existing nodes has thrown InvalidArguments with 3, on a
\* graph with an edge whose index is not built.
C8_Witness ==
  /\ IsQuery(last)
  /\ last.args = <<NodeArg("A"), NodeArg("A"), NodeArg("A")>>
  /\ last.out = InvalidArguments(3)
  /\ DOMAIN _edges # {}
  /\ ~computed

\* C9: on a built index, every entry point gives on every argument list the
\* outcome it gives after the index is cleared and built again.
C9_RebuildSameResults ==
  (last = NoCall /\ computed) =>
    \A d \in DOMAIN EDGES_ITERATION, c \in BOOLEAN, a \in ArgLists :
      attachEdgeArrayCreator(c, EDGES_ITERATION[d], a, Index).out =
        attachEdgeArrayCreator(c, EDGES_ITERATION[d], a,
                               computeIndex(clearIndex(Index))).out

\* C10: on a built index, computeIndex changes nothing, and inserting again an
\* edge of the graph leaves the buckets and the sets as they are.
C10_BuildIdempotent ==
  computed =>
    /\ computeIndex(Index) = Index
    /\ \A e \in DOMAIN _edges :
         updateStructureIndex(Index, e, _edges[e]) = Index

\* The index is built over two parallel edges of a multigraph, which share
\* one set.
C10_Witness ==
  /\ computed
  /\ multi
  /\ \E h \in DOMAIN sets : sets[h] = {1, 2}
  /\ DOMAIN _edges = {1, 2}

\* C11: the per-node query edges(A) returns exactly the edges of the graph
\* that have A as source or as target, each exactly once, and no other edge.
C11_EdgesOfNodeAreCanonical ==
  \A n \in Nodes :
    Collected(last, "edges", n) =>
      /\ last.out.kind = "array"
      /\ \A e \in 1..added :
           Occurrences(last.out.arr, e) =
             (IF /\ e \in DOMAIN _edges
                 /\ n \in {_edges[e].source, _edges[e].target}
              THEN 1 ELSE 0)

\* The entry of bucket `name` of node n under key k is present.
Present(n, name, k) == _nodes[n][name].def /\ k \in DOMAIN _nodes[n][name].at

\* For distinct s and t the entries s[outKey][t] and t[inKey][s] are present
\* together and hold the same value: the same edge key, or the same Set.
Mirrored(outKey, inKey) ==
  \A s \in Nodes, t \in Nodes :
    s # t =>
      /\ Present(s, outKey, t) <=> Present(t, inKey, s)
      /\ Present(s, outKey, t) =>
           _nodes[s][outKey].at[t] = _nodes[t][inKey].at[s]

\* C12: in every reachable state, for distinct nodes s and t, s.out[t] is
\* present exactly when t.in[s] is, and both hold the same value (the same
\* edge key, or the same shared set); likewise for undirectedOut and
\* undirectedIn.
C12_BothSidesSameEntry ==
  /\ Mirrored("out", "in")
  /\ Mirrored("undirectedOut", "undirectedIn")

\* A multigraph whose index held an edge between two distinct nodes and lost
\* it again: both sides still hold the entry, and the set they share is
\* empty from either side.
C12_Witness ==
  /\ computed
  /\ multi
  /\ \E s \in Nodes, t \in Nodes :
       /\ s # t
       /\ Present(s, "out", t)
       /\ Present(t, "in", s)
       /\ sets[_nodes[t]["in"].at[s]] = {}

\* Edge e is recorded in the entry of bucket `name` of node n under key k.
Recorded(idx, e, n, name, k) ==
  /\ idx.nodes[n][name].def
  /\ k \in DOMAIN idx.nodes[n][name].at
  /\ IF multi
     THEN e \in idx.sets[idx.nodes[n][name].at[k]]
     ELSE idx.nodes[n][name].at[k] = e

\* C13: in every reachable state no node has, in its in or undirectedIn
\* bucket, an entry keyed by the node itself; on a built index a self-loop of
\* s is recorded in s.out[s] or s.undirectedOut[s]; and inserting a self-loop
\* between two calls leaves the in and undirectedIn buckets of every node as
\* they are.
C13_SelfLoopOnlyOnSourceSide ==
  /\ \A s \in Nodes : ~Present(s, "in", s) /\ ~Present(s, "undirectedIn", s)
  /\ \A e \in DOMAIN _edges :
       (computed /\ _edges[e].source = _edges[e].target) =>
         Recorded(Index, e, _edges[e].source,
                  IF _edges[e].undirected THEN "undirectedOut" ELSE "out",
                  _edges[e].source)
  /\ last = NoCall =>
       \A s \in Nodes, u \in BOOLEAN :
         LET after == updateStructureIndex(Index, added + 1,
                        [source |-> s, target |-> s, undirected |-> u])
         IN  \A n \in Nodes :
               /\ after.nodes[n]["in"] = _nodes[n]["in"]
               /\ after.nodes[n]["undirectedIn"] = _nodes[n]["undirectedIn"]

\* The index holds a self-loop of a node that has no in-side bucket of the
\* self-loop's kind.
C13_Witness ==
  /\ computed
  /\ \E e \in DOMAIN _edges :
       LET s == _edges[e].source
           u == _edges[e].undirected
       IN  /\ s = _edges[e].target
           /\ Recorded(Index, e, s,
                       IF u THEN "undirectedOut" ELSE "out", s)
           /\ ~_nodes[s][IF u THEN "undirectedIn" ELSE "in"].def

\* C14: removing a self-loop of s from a built index completes normally and
\* leaves the in and undirectedIn buckets of s as they are, in simple and in
\* multigraph mode, also when s has no such bucket.
C14_SelfLoopRemovalSourceSideOnly ==
  [][\A e \in DOMAIN _edges :
       (/\ computed
        /\ _edges[e].source = _edges[e].target
        /\ e \notin DOMAIN _edges') =>
         /\ last' = NoCall
         /\ _nodes'[_edges[e].source]["in"] = _nodes[_edges[e].source]["in"]
         /\ _nodes'[_edges[e].source]["undirectedIn"] =
              _nodes[_edges[e].source]["undirectedIn"]]_vars

\* C15: onEdgeRemoved for an edge e from s to t changes only the bookkeeping
\* of e: every other edge is afterwards recorded in every bucket and under
\* every key it was recorded in before, the buckets of the nodes other than s
\* and t are unchanged, and every bucket that existed before still exists.
C15_RemovalTouchesOnlyItsEdge ==
  (last = NoCall /\ computed) =>
    \A e \in DOMAIN _edges :
      LET after == onEdgeRemoved(Index, e, _edges[e]).idx
      IN  /\ \A n \in Nodes \ {_edges[e].source, _edges[e].target} :
               after.nodes[n] = _nodes[n]
          /\ \A n \in Nodes, b \in BucketNames :
               after.nodes[n][b].def = _nodes[n][b].def
          /\ \A f \in DOMAIN _edges \ {e} :
               \A n \in Nodes, b \in BucketNames, k \in Nodes :
                 Recorded(Index, f, n, b, k) => Recorded(after, f, n, b, k)

\* An edge has been removed from a built index that recorded it: the bucket
\* it was recorded in is still there, without its entry (simple graph) or
\* with a set that lost it (multigraph), and another edge is still recorded.
C15_Witness ==
  /\ computed
  /\ last = NoCall
  /\ \E n \in Nodes :
       /\ _nodes[n]["out"].def
       /\ \/ ~multi /\ _nodes[n]["out"].at = EmptyFcn
          \/ multi /\ \E k \in DOMAIN _nodes[n]["out"].at :
                        sets[_nodes[n]["out"].at[k]] = {}
  /\ \E f \in DOMAIN _edges, n \in Nodes, b \in BucketNames, k \in Nodes :
       Recorded(Index, f, n, b, k)

\* The call of `method` without arguments, in collect or in count mode.
Global(call, method, counter) ==
  /\ call.method = method
  /\ call.counter = counter
  /\ call.args = <<>>

\* Array arr holds the edges of set S, each exactly once, and nothing else.
Exactly(arr, S) ==
  \A e \in 1..added : Occurrences(arr, e) = (IF e \in S THEN 1 ELSE 0)

SelfLoopEdges == {e \in DOMAIN _edges : _edges[e].source = _edges[e].target}

\* C16: selfLoops() returns exactly the edges whose source equals their
\* target, directed and undirected ones alike, and countSelfLoops() returns
\* their number.
C16_SelfLoopsOfBothKinds ==
  /\ Global(last, "selfLoops", FALSE) =>
       /\ last.out.kind = "array"
       /\ Exactly(last.out.arr, SelfLoopEdges)
  /\ Global(last, "selfLoops", TRUE) =>
       last.out = Number(Cardinality(SelfLoopEdges))

\* C17: directedEdges() returns exactly the edges whose record is not
\* undirected and undirectedEdges() exactly those whose record is
\* undirected, self-loops included, so that the two results partition the
\* edges of the graph.
C17_DirectedUndirectedPartition ==
  /\ Global(last, "directedEdges", FALSE) =>
       /\ last.out.kind = "array"
       /\ Exactly(last.out.arr,
                  {e \in DOMAIN _edges : ~_edges[e].undirected})
  /\ Global(last, "undirectedEdges", FALSE) =>
       /\ last.out.kind = "array"
       /\ Exactly(last.out.arr,
                  {e \in DOMAIN _edges : _edges[e].undirected})

\* The call of `method` on the path from source to target.
Path(call, method, counter, source, target) ==
  /\ call.method = method
  /\ call.counter = counter
  /\ call.args = <<NodeArg(source), NodeArg(target)>>

\* The edges that have s and t as their endpoints, in either orientation.
Between(s, t) ==
  {e \in DOMAIN _edges :
     {_edges[e].source, _edges[e].target} = {s, t}}

\* C18: when the only edge between source and target is an undirected one,
\* the arity-2 query of a mixed family (edges, inboundEdges, outboundEdges)
\* returns that edge, and its counter returns 1.
C18_UndirectedEdgePassesMixedCheck ==
  \A m \in {"edges", "inboundEdges", "outboundEdges"} :
    \A s \in Nodes, t \in Nodes, e \in DOMAIN _edges :
      (Between(s, t) = {e} /\ _edges[e].undirected) =>
        /\ Path(last, m, FALSE, s, t) =>
             /\ last.out.kind = "array"
             /\ Exactly(last.out.arr, {e})
        /\ Path(last, m, TRUE, s, t) => last.out = Number(1)

\* C19: outEdges(S, T) returns an array of directed edges with source S and
\* target T, and inEdges(S, T) an array of directed edges with source T and
\* target S; no edge of the opposite direction is in either.
C19_PathQueriesHonourDirection ==
  \A s \in Nodes, t \in Nodes :
    /\ Path(last, "outEdges", FALSE, s, t) =>
         /\ last.out.kind = "array"
         /\ \A i \in DOMAIN last.out.arr :
              /\ last.out.arr[i] \in DOMAIN _edges
              /\ _edges[last.out.arr[i]] =
                   [source |-> s, target |-> t, undirected |-> FALSE]
    /\ Path(last, "inEdges", FALSE, s, t) =>
         /\ last.out.kind = "array"
         /\ \A i \in DOMAIN last.out.arr :
              /\ last.out.arr[i] \in DOMAIN _edges
              /\ _edges[last.out.arr[i]] =
                   [source |-> t, target |-> s, undirected |-> FALSE]

\* C20: for every family without a direction (edges, directedEdges,
\* undirectedEdges, selfLoops) and every node A of the graph, the per-node
\* result for A is the array of exactly those edges of the family's result
\* without arguments that have A as source or as target.
C20_AritiesAgree ==
  \A m \in {"edges", "directedEdges", "undirectedEdges", "selfLoops"} :
    \A n \in Nodes :
      Collected(last, m, n) =>
        LET all == createEdgeArray(FALSE, Description(m).type).arr
        IN  /\ last.out.kind = "array"
            /\ Exactly(last.out.arr,
                       {e \in DOMAIN _edges :
                          /\ Occurrences(all, e) = 1
                          /\ n \in {_edges[e].source, _edges[e].target}})

====
